---- MODULE Spec2Model ----
(***************************************************************************)
(* Model of the Microgrids.py operation simulator (microgrids/operation.py) *)
(* and economic evaluator (microgrids/economics.py).                       *)
(*                                                                         *)
(* Real quantities (powers, energies, prices) are exact rationals <<n, d>> *)
(* in lowest terms with d > 0.  The three non-finite floating point values *)
(* are <<1, 0>> (+inf), <<-1, 0>> (-inf) and <<0, 0>> (nan).               *)
(***************************************************************************)
EXTENDS Integers, Sequences, FiniteSets, TLC

VARIABLES
    mg,             \* the Microgrid given to sim_operation / sim_economics
    recorder,       \* the TrajRecorder argument (on = FALSE: recorder=None)
    pc,             \* entry, loop, done, costed, op_raised, econ_raised; idle
    k,              \* loop index of sim_operation
    Esto,           \* storage energy (loop variable of sim_operation)
    Esto_ini,       \* initial storage energy
    op_st,          \* OperationStats being accumulated / returned
    shed_duration,  \* duration of the current load shedding event
    last,           \* arguments and result of the dispatch call of the last instant
    mg_costs,       \* MicrogridCosts returned by sim_economics
    err,            \* exception raised, "none" when no exception
    d_args,         \* arguments of a direct call of dispatch
    d_res,          \* result of a direct call of dispatch
    f_args,         \* arguments of a direct call of CostFactors.from_prices
    f_res,          \* result of a direct call of CostFactors.from_prices
    f_other,        \* right operand of a direct call of CostFactors.__add__
    f_sum           \* result of a direct call of CostFactors.__add__

vars == <<mg, recorder, pc, k, Esto, Esto_ini, op_st, shed_duration, last,
          mg_costs, err, d_args, d_res, f_args, f_res, f_other, f_sum>>

fvars == <<f_args, f_res, f_other, f_sum>>

simvars == <<mg, recorder, pc, k, Esto, Esto_ini, op_st, shed_duration, last,
             mg_costs, err>>

-----------------------------------------------------------------------------
(* Exact rational arithmetic *)

RECURSIVE GCD(_, _)
GCD(a, b) == IF b = 0 THEN a ELSE GCD(b, a % b)

Abs(n) == IF n < 0 THEN -n ELSE n

\* the rational n/d in lowest terms, d # 0
R(n, d) ==
    LET g == GCD(Abs(n), Abs(d))
        s == IF d < 0 THEN -1 ELSE 1
    IN  <<s * (n \div g), s * (d \div g)>>

Zero == <<0, 1>>
One == <<1, 1>>
PosInf == <<1, 0>>
NegInf == <<-1, 0>>
NaN == <<0, 0>>

IsFinite(a) == a[2] > 0

RAdd(a, b) == R(a[1] * b[2] + b[1] * a[2], a[2] * b[2])
RNeg(a) == <<-a[1], a[2]>>
RSub(a, b) == RAdd(a, RNeg(b))
RMul(a, b) == R(a[1] * b[1], a[2] * b[2])
\* quotient of finite rationals, b # 0
RDiv(a, b) == R(a[1] * b[2], a[2] * b[1])
RAbs(a) == <<Abs(a[1]), a[2]>>
\* order; also right when one side is +inf or -inf
RLt(a, b) == a[1] * b[2] < b[1] * a[2]
RLe(a, b) == a[1] * b[2] <= b[1] * a[2]
RGe(a, b) == RLe(b, a)
RGt(a, b) == RLt(b, a)
\* Python's min(a, b) and max(a, b): the first argument wins a tie
RMin(a, b) == IF RLt(b, a) THEN b ELSE a
RMax(a, b) == IF RGt(b, a) THEN b ELSE a

RECURSIVE RSum(_)
RSum(s) == IF s = <<>> THEN Zero ELSE RAdd(Head(s), RSum(Tail(s)))

-----------------------------------------------------------------------------
(* dispatch: operation.py lines 92-157 *)

dispatch_NoGenInShed(Pnl_req, Psto_cmax, Psto_dmax, Pgen_max) ==
    IF RGe(Pnl_req, Zero)
    THEN IF RGe(Pnl_req, Psto_dmax)
         THEN IF RGe(RSub(Pnl_req, Psto_dmax), Pgen_max)
              THEN [Pgen |-> Pgen_max, Psto |-> Psto_dmax, Pspill |-> Zero,
                    Pshed |-> RSub(Pnl_req, Psto_dmax)]
              ELSE [Pgen |-> RSub(Pnl_req, Psto_dmax), Psto |-> Psto_dmax,
                    Pspill |-> Zero, Pshed |-> Zero]
         ELSE [Pgen |-> Zero, Psto |-> Pnl_req, Pspill |-> Zero, Pshed |-> Zero]
    ELSE IF RGe(Pnl_req, Psto_cmax)
         THEN [Pgen |-> Zero, Psto |-> Pnl_req, Pspill |-> Zero, Pshed |-> Zero]
         ELSE [Pgen |-> Zero, Psto |-> Psto_cmax,
               Pspill |-> RSub(Psto_cmax, Pnl_req), Pshed |-> Zero]

dispatch_NoStorageLimit(Pnl_req, Psto_cmax, Psto_dmax, Pgen_max) ==
    IF RGe(Pnl_req, Zero)
    THEN [Pgen |-> Zero, Psto |-> Pnl_req, Pspill |-> Zero, Pshed |-> Zero]
    ELSE [Pgen |-> Zero, Psto |-> Pnl_req, Pspill |-> Zero, Pshed |-> Zero]

dispatch_GeneratorFirst(Pnl_req, Psto_cmax, Psto_dmax, Pgen_max) ==
    IF RGe(Pnl_req, Zero)
    THEN IF RGe(Pnl_req, Pgen_max)
         THEN LET rest == RSub(Pnl_req, Pgen_max)
                  Psto == RMin(rest, Psto_dmax)
              IN  [Pgen |-> Pgen_max, Psto |-> Psto, Pspill |-> Zero,
                   Pshed |-> RSub(rest, Psto)]
         ELSE [Pgen |-> Pnl_req, Psto |-> Zero, Pspill |-> Zero, Pshed |-> Zero]
    ELSE IF RGe(Pnl_req, Psto_cmax)
         THEN [Pgen |-> Zero, Psto |-> Pnl_req, Pspill |-> Zero, Pshed |-> Zero]
         ELSE [Pgen |-> Zero, Psto |-> Psto_cmax,
               Pspill |-> RSub(Psto_cmax, Pnl_req), Pshed |-> Zero]

dispatch_SpillAll(Pnl_req, Psto_cmax, Psto_dmax, Pgen_max) ==
    IF RGe(Pnl_req, Zero)
    THEN IF RGe(Pnl_req, Psto_dmax)
         THEN IF RGe(RSub(Pnl_req, Psto_dmax), Pgen_max)
              THEN [Pgen |-> Pgen_max, Psto |-> Psto_dmax, Pspill |-> Zero,
                    Pshed |-> RSub(RSub(Pnl_req, Psto_dmax), Pgen_max)]
              ELSE [Pgen |-> RSub(Pnl_req, Psto_dmax), Psto |-> Psto_dmax,
                    Pspill |-> Zero, Pshed |-> Zero]
         ELSE [Pgen |-> Zero, Psto |-> Pnl_req, Pspill |-> Zero, Pshed |-> Zero]
    ELSE [Pgen |-> Zero, Psto |-> Zero, Pspill |-> RNeg(Pnl_req), Pshed |-> Zero]

\* a generator that only runs at full power, its excess being spilled
dispatch_FullPowerGenerator(Pnl_req, Psto_cmax, Psto_dmax, Pgen_max) ==
    IF RGe(Pnl_req, Zero)
    THEN IF RGe(Pnl_req, Psto_dmax)
         THEN IF RGe(RSub(Pnl_req, Psto_dmax), Pgen_max)
              THEN [Pgen |-> Pgen_max, Psto |-> Psto_dmax, Pspill |-> Zero,
                    Pshed |-> RSub(RSub(Pnl_req, Psto_dmax), Pgen_max)]
              ELSE [Pgen |-> Pgen_max, Psto |-> Psto_dmax,
                    Pspill |-> RSub(Pgen_max, RSub(Pnl_req, Psto_dmax)),
                    Pshed |-> Zero]
         ELSE [Pgen |-> Zero, Psto |-> Pnl_req, Pspill |-> Zero, Pshed |-> Zero]
    ELSE IF RGe(Pnl_req, Psto_cmax)
         THEN [Pgen |-> Zero, Psto |-> Pnl_req, Pspill |-> Zero, Pshed |-> Zero]
         ELSE [Pgen |-> Zero, Psto |-> Psto_cmax,
               Pspill |-> RSub(Psto_cmax, Pnl_req), Pshed |-> Zero]

\* returns the record [Pgen, Psto, Pspill, Pshed] (the code returns the tuple)
dispatch(Pnl_req, Psto_cmax, Psto_dmax, Pgen_max) ==
    IF RGe(Pnl_req, Zero)
    THEN \* storage discharging
         IF RGe(Pnl_req, Psto_dmax)
         THEN IF RGe(RSub(Pnl_req, Psto_dmax), Pgen_max)
              THEN [Pgen |-> Pgen_max, Psto |-> Psto_dmax, Pspill |-> Zero,
                    Pshed |-> RSub(RSub(Pnl_req, Psto_dmax), Pgen_max)]
              ELSE [Pgen |-> RSub(Pnl_req, Psto_dmax), Psto |-> Psto_dmax,
                    Pspill |-> Zero, Pshed |-> Zero]
         ELSE [Pgen |-> Zero, Psto |-> Pnl_req, Pspill |-> Zero, Pshed |-> Zero]
    ELSE \* storage charging
         IF RGe(Pnl_req, Psto_cmax)
         THEN [Pgen |-> Zero, Psto |-> Pnl_req, Pspill |-> Zero, Pshed |-> Zero]
         ELSE [Pgen |-> Zero, Psto |-> Psto_cmax,
               Pspill |-> RSub(Psto_cmax, Pnl_req), Pshed |-> Zero]

-----------------------------------------------------------------------------
(* Bounds and input values of the model *)

\* largest number of instants K = len(mg.load); the series have 1..MaxK instants
MaxK == 2

\* largest magnitude (in halves of a kW) of the powers given to a direct
\* call of dispatch
MaxP == 4

Half == <<1, 2>>
Two == <<2, 1>>
Three == <<3, 1>>

LoadVals == {Zero, One, Three}
IrradianceVals == {Zero, One}
TimestepVals == {One, Half}
EnergyRatedVals == {Zero, Two}
LossFactorVals == {Zero, <<1, 4>>}
GenPowerRatedVals == {Zero, Two}
PVPowerRatedVals == {Zero, Two}

SeqsOfLen(S, n) == [1..n -> S]

\* components.py Project
Projects ==
    {[lifetime |-> 4, discount_rate |-> One, timestep |-> dt] : dt \in TimestepVals}

\* components.py DispatchableGenerator
Generators ==
    {[power_rated |-> p, fuel_intercept |-> <<1, 8>>, fuel_slope |-> <<1, 4>>,
      fuel_price |-> One, investment_price |-> <<4, 1>>,
      om_price_hours |-> <<1, 8>>, lifetime_hours |-> <<6, 1>>,
      replacement_price_ratio |-> One, salvage_price_ratio |-> One]
     : p \in GenPowerRatedVals}

\* components.py Battery (charge_rate_max, discharge_rate_max at their defaults)
Battery(e, a, smin, sini) ==
    [energy_rated |-> e, investment_price |-> Three, om_price |-> <<1, 4>>,
     lifetime_calendar |-> Three, lifetime_cycles |-> <<1000, 1>>,
     charge_rate_max |-> One, discharge_rate_max |-> One,
     loss_factor |-> a, SoC_min |-> smin, SoC_ini |-> sini,
     replacement_price_ratio |-> One, salvage_price_ratio |-> One]

\* with energy_rated = 0 every energy and power limit is 0 whatever the other
\* parameters: one such battery is enough
Batteries ==
    {Battery(e, a, smin, sini)
       : e \in EnergyRatedVals \ {Zero}, a \in LossFactorVals,
         smin \in {Zero, Half}, sini \in {Zero, One}}
    \cup (IF Zero \in EnergyRatedVals THEN {Battery(Zero, <<1, 4>>, Half, One)}
          ELSE {})

\* components.py Photovoltaic
Photovoltaic(p, irr) ==
    [power_rated |-> p, irradiance |-> irr, investment_price |-> Two,
     om_price |-> <<1, 4>>, lifetime |-> Two, derating_factor |-> One,
     replacement_price_ratio |-> One, salvage_price_ratio |-> One]

\* the sources with an irradiance series of n instants; with power_rated = 0
\* the production is 0 whatever the irradiance: one series is enough
Photovoltaics(n) ==
    {Photovoltaic(p, irr)
       : p \in PVPowerRatedVals \ {Zero}, irr \in SeqsOfLen(IrradianceVals, n)}
    \cup (IF Zero \in PVPowerRatedVals
          THEN {Photovoltaic(Zero, [i \in 1..n |-> One])} ELSE {})

\* components.py Microgrid: the mapping of sources is empty or holds "pv"
Microgrids ==
    UNION {
      {[project |-> pr, load |-> ld, generator |-> g, storage |-> b,
        nondispatchables |-> nds]
       : pr \in Projects, ld \in SeqsOfLen(LoadVals, n), g \in Generators,
         b \in Batteries,
         nds \in {<<>>} \cup {[x \in {"pv"} |-> pv] : pv \in Photovoltaics(n)}}
      : n \in 1..MaxK}

-----------------------------------------------------------------------------
(* sim_operation: operation.py lines 160-274 *)

\* Photovoltaic.production: components.py lines 176-179
production(nd) ==
    [i \in 1..Len(nd.irradiance) |->
        RMul(RMul(nd.derating_factor, nd.power_rated), nd.irradiance[i])]

\* sum(renew_productions) is the int 0 when there is no source
NoSource(m) == DOMAIN m.nondispatchables = {}

\* element i of a numpy array in an elementwise operation: an array of
\* length 1 is broadcast
Broadcast(s, i) == IF Len(s) = 1 THEN s[1] ELSE s[i]

\* the lengths of the load and production series
SeriesLengths(m) ==
    {Len(m.load)} \cup
    {Len(m.nondispatchables[x].irradiance) : x \in DOMAIN m.nondispatchables}

\* sum(renew_productions) and mg.load - renew_potential (lines 169, 172) are
\* defined when the lengths other than 1 are all equal; numpy raises
\* ValueError otherwise
ShapesAgree(m) == Cardinality(SeriesLengths(m) \ {1}) <= 1

\* len(renew_potential): the longest production series, 0 for the int 0
RenewLen(m) ==
    IF NoSource(m) THEN 0
    ELSE LET lens == {Len(m.nondispatchables[x].irradiance) :
                         x \in DOMAIN m.nondispatchables}
         IN  CHOOSE n \in lens : \A l \in lens : l <= n

\* renew_potential[i], i = 1..K (line 169); the scalar 0 without a source
renew_potential(m, i) ==
    IF NoSource(m) THEN Zero
    ELSE LET names == DOMAIN m.nondispatchables
             P[S \in SUBSET names] ==
                 IF S = {} THEN Zero
                 ELSE LET x == CHOOSE y \in S : TRUE
                      IN  RAdd(Broadcast(production(m.nondispatchables[x]), i), P[S \ {x}])
         IN  P[names]

\* Pnl_request[i] (line 172)
Pnl_request(m, i) == RSub(m.load[i], renew_potential(m, i))

\* OperationStats(): every field at its default 0.0 (lines 17-66)
OperationStats0 ==
    [served_energy |-> Zero, shed_energy |-> Zero, shed_max |-> Zero,
     shed_hours |-> Zero, shed_duration_max |-> Zero, shed_rate |-> Zero,
     gen_energy |-> Zero, gen_hours |-> Zero, gen_fuel |-> Zero,
     storage_cycles |-> Zero, storage_char_energy |-> Zero,
     storage_dis_energy |-> Zero, storage_loss_energy |-> Zero,
     spilled_energy |-> Zero, spilled_max |-> Zero, spilled_rate |-> Zero,
     renew_potential_energy |-> Zero, renew_energy |-> Zero,
     renew_rate |-> Zero]

\* np.zeros(n)
zeros(n) == [i \in 1..n |-> Zero]

\* a recorder before init: no array yet
NoArrays == [Prep |-> <<>>, Pgen |-> <<>>, Psto |-> <<>>, Esto |-> <<>>,
             Pspill |-> <<>>, Pshed |-> <<>>]

\* vector[i] = value with numpy's indexing: i in -len..len-1, negative from the end
SetAt(vector, i, value) ==
    LET pos == IF i < 0 THEN Len(vector) + i + 1 ELSE i + 1
    IN  [vector EXCEPT ![pos] = value]

K_of(m) == Len(m.load)
Psto_pmax(m) == RMul(m.storage.discharge_rate_max, m.storage.energy_rated)
Psto_pmin(m) == RNeg(RMul(m.storage.charge_rate_max, m.storage.energy_rated))
Esto_max(m) == m.storage.energy_rated
Esto_min(m) == RMul(m.storage.SoC_min, m.storage.energy_rated)

\* storage power limits of the instant (lines 202-205)
Psto_emin(m, E) ==
    RNeg(RDiv(RSub(Esto_max(m), E),
              RMul(RSub(One, m.storage.loss_factor), m.project.timestep)))
Psto_emax(m, E) ==
    RDiv(RSub(E, Esto_min(m)),
         RMul(RAdd(One, m.storage.loss_factor), m.project.timestep))
Psto_dmax(m, E) == RMin(Psto_emax(m, E), Psto_pmax(m))
Psto_cmax(m, E) == RMax(Psto_emin(m, E), Psto_pmin(m))

\* storage dynamics (line 219)
StorageUpdate_NoLoss(m, E, Psto) == RSub(E, RMul(Psto, m.project.timestep))
StorageUpdate(m, E, Psto) ==
    RSub(E, RMul(RAdd(Psto, RMul(m.storage.loss_factor, RAbs(Psto))),
                 m.project.timestep))

\* the running shedding duration never reset
ShedStats_NoReset(m, st, d, sd) ==
    LET dt == m.project.timestep
        shedding == RGt(d.Pshed, Zero)
        sd1 == IF shedding THEN RAdd(sd, dt) ELSE sd
    IN  [st |-> [st EXCEPT
                   !.shed_energy = RAdd(@, RMul(d.Pshed, dt)),
                   !.shed_max = RMax(@, d.Pshed),
                   !.shed_hours = IF shedding THEN RAdd(@, dt) ELSE @,
                   !.shed_duration_max = IF shedding THEN RMax(@, sd1) ELSE @],
         shed_duration |-> sd1]

\* load statistics of one instant (lines 223-232): the statistics and the
\* duration of the current load shedding event
ShedStats(m, st, d, sd) ==
    LET dt == m.project.timestep
        shedding == RGt(d.Pshed, Zero)
        sd1 == IF shedding THEN RAdd(sd, dt) ELSE Zero
    IN  [st |-> [st EXCEPT
                   !.shed_energy = RAdd(@, RMul(d.Pshed, dt)),
                   !.shed_max = RMax(@, d.Pshed),
                   !.shed_hours = IF shedding THEN RAdd(@, dt) ELSE @,
                   !.shed_duration_max = IF shedding THEN RMax(@, sd1) ELSE @],
         shed_duration |-> sd1]

\* the idle fuel consumption counted at every instant, generator on or off
GenStats_FuelWhenOff(m, st, d) ==
    LET dt == m.project.timestep
        fuel_rate == RAdd(RMul(m.generator.fuel_intercept, m.generator.power_rated),
                          RMul(m.generator.fuel_slope, d.Pgen))
    IN  [st EXCEPT
           !.gen_energy = RAdd(@, RMul(d.Pgen, dt)),
           !.gen_hours = IF RGt(d.Pgen, Zero) THEN RAdd(@, dt) ELSE @,
           !.gen_fuel = RAdd(@, RMul(fuel_rate, dt))]

\* dispatchable generator statistics of one instant (lines 234-240)
GenStats(m, st, d) ==
    LET dt == m.project.timestep
        fuel_rate == RAdd(RMul(m.generator.fuel_intercept, m.generator.power_rated),
                          RMul(m.generator.fuel_slope, d.Pgen))
    IN  IF RGt(d.Pgen, Zero)
        THEN [st EXCEPT
                !.gen_energy = RAdd(@, RMul(d.Pgen, dt)),
                !.gen_hours = RAdd(@, dt),
                !.gen_fuel = RAdd(@, RMul(fuel_rate, dt))]
        ELSE st

\* energy storage statistics of one instant (lines 242-246)
StorageStats(m, st, d) ==
    LET dt == m.project.timestep
    IN  IF RGt(d.Psto, Zero)
        THEN [st EXCEPT !.storage_dis_energy = RAdd(@, RMul(d.Psto, dt))]
        ELSE [st EXCEPT !.storage_char_energy = RSub(@, RMul(d.Psto, dt))]

\* the spilled power summed without the timestep
SpillStats_NoTimestep(m, st, d) ==
    [st EXCEPT
       !.spilled_energy = RAdd(@, d.Pspill),
       !.spilled_max = RMax(@, d.Pspill)]

\* non-dispatchable sources statistics of one instant (lines 248-250)
SpillStats(m, st, d) ==
    LET dt == m.project.timestep
    IN  [st EXCEPT
           !.spilled_energy = RAdd(@, RMul(d.Pspill, dt)),
           !.spilled_max = RMax(@, d.Pspill)]

\* the statistics of one instant folded into op_st (lines 223-250)
Accumulate(m, st, d, sd) ==
    LET shed == ShedStats(m, st, d, sd)
    IN  [st |-> SpillStats(m, StorageStats(m, GenStats(m, shed.st, d), d), d),
         shed_duration |-> shed.shed_duration]

\* np.sum(mg.load)
SumLoad(m) == RSum(m.load)

\* np.sum(renew_potential): np.sum(0) = 0 without a source
SumRenew(m) == RSum([i \in 1..RenewLen(m) |-> renew_potential(m, i)])

\* x / y if y != 0.0 else np.inf
RatioOrInf_Zero(x, y) == IF y # Zero THEN RDiv(x, y) ELSE Zero
RatioOrInf(x, y) == IF y # Zero THEN RDiv(x, y) ELSE PosInf

\* storage_loss_energy (lines 262-263)
StorageLoss(st, E, Eini) ==
    RSub(RSub(st.storage_char_energy, st.storage_dis_energy), RSub(E, Eini))

\* the aggregated statistics after the loop (lines 257-273)
FinalStats(m, st, E, Eini) ==
    LET dt == m.project.timestep
        load_energy == RMul(SumLoad(m), dt)
        served == RSub(load_energy, st.shed_energy)
        storage_throughput == RAdd(st.storage_char_energy, st.storage_dis_energy)
        rpe == SumRenew(m)
    IN  [st EXCEPT
           !.served_energy = served,
           !.shed_rate = RatioOrInf(st.shed_energy, load_energy),
           !.storage_loss_energy = StorageLoss(st, E, Eini),
           !.storage_cycles =
               RatioOrInf(storage_throughput, RMul(Two, m.storage.energy_rated)),
           !.renew_potential_energy = rpe,
           !.renew_energy = RSub(rpe, st.spilled_energy),
           !.renew_rate =
               IF served # Zero THEN RSub(One, RDiv(st.gen_energy, served))
               ELSE PosInf,
           !.spilled_rate = RatioOrInf(st.spilled_energy, rpe)]

NoCall == [called |-> FALSE, Pnl_req |-> Zero, Psto_cmax |-> Zero,
           Psto_dmax |-> Zero, Pgen_max |-> Zero]
NoResult == [Pgen |-> Zero, Psto |-> Zero, Pspill |-> Zero, Pshed |-> Zero]
NoCosts == <<>>

\* the state before the call sim_operation(mg, recorder)
Init ==
    /\ mg \in Microgrids
    /\ recorder \in {[on |-> b, arrays |-> NoArrays] : b \in BOOLEAN}
    /\ pc = "entry"
    /\ k = 0
    /\ Esto = Zero
    /\ Esto_ini = Zero
    /\ op_st = OperationStats0
    /\ shed_duration = Zero
    /\ last = NoCall
    /\ mg_costs = NoCosts
    /\ err = "none"
    /\ d_args = NoCall
    /\ d_res = NoResult
    /\ f_args = NoCall
    /\ f_res = NoResult
    /\ f_other = NoCall
    /\ f_sum = NoResult

\* recorder.init(Prep=K, Pgen=K, Psto=K, Esto=K+1, Pspill=K, Pshed=K) (line 193)
RecorderInit(n) ==
    [Prep |-> zeros(n), Pgen |-> zeros(n), Psto |-> zeros(n),
     Esto |-> zeros(n + 1), Pspill |-> zeros(n), Pshed |-> zeros(n)]

\* initial storage state (line 186)
InitialEnergy(m) == RMul(m.storage.SoC_ini, m.storage.energy_rated)

\* sim_operation up to the loop (lines 167-193)
SimEntry ==
    /\ pc = "entry"
    /\ IF ~ShapesAgree(mg)
       THEN \* operands could not be broadcast together (lines 169, 172)
            /\ pc' = "op_raised"
            /\ err' = "ValueError"
            /\ UNCHANGED <<recorder, k, Esto, Esto_ini, op_st, shed_duration>>
       ELSE /\ Esto_ini' = InitialEnergy(mg)
            /\ Esto' = Esto_ini'
            /\ op_st' = OperationStats0
            /\ shed_duration' = Zero
            /\ k' = 0
            /\ recorder' = IF recorder.on
                           THEN [recorder EXCEPT !.arrays = RecorderInit(K_of(mg))]
                           ELSE recorder
            /\ pc' = "loop"
            /\ UNCHANGED err
    /\ UNCHANGED <<mg, last, mg_costs, d_args, d_res, fvars>>

\* recorder.rec(k, Prep=..., Pgen=..., Psto=..., Esto=..., Pspill=..., Pshed=...)
\* (lines 213-216)
RecordInstant(a, i, m, E, d) ==
    [Prep |-> SetAt(a.Prep, i, renew_potential(m, i + 1)),
     Pgen |-> SetAt(a.Pgen, i, d.Pgen),
     Psto |-> SetAt(a.Psto, i, d.Psto),
     Esto |-> SetAt(a.Esto, i, E),
     Pspill |-> SetAt(a.Pspill, i, d.Pspill),
     Pshed |-> SetAt(a.Pshed, i, d.Pshed)]

\* one iteration of the operation simulation loop (lines 197-250)
SimStep ==
    /\ pc = "loop"
    /\ k < K_of(mg)
    /\ LET cmax == Psto_cmax(mg, Esto)
           dmax == Psto_dmax(mg, Esto)
           req == Pnl_request(mg, k + 1)
           d == dispatch(req, cmax, dmax, mg.generator.power_rated)
           acc == Accumulate(mg, op_st, d, shed_duration)
       IN  IF recorder.on /\ k + 1 > RenewLen(mg)
           THEN \* renew_potential[k] on the int 0: TypeError; beyond the end
                \* of a production series of length 1: IndexError
                /\ pc' = "op_raised"
                /\ err' = IF NoSource(mg) THEN "TypeError" ELSE "IndexError"
                /\ last' = [called |-> TRUE, Pnl_req |-> req, Psto_cmax |-> cmax,
                            Psto_dmax |-> dmax,
                            Pgen_max |-> mg.generator.power_rated] @@ d
                /\ UNCHANGED <<recorder, k, Esto, op_st, shed_duration>>
           ELSE /\ recorder' =
                     IF recorder.on
                     THEN [recorder EXCEPT
                             !.arrays = RecordInstant(@, k, mg, Esto, d)]
                     ELSE recorder
                /\ Esto' = StorageUpdate(mg, Esto, d.Psto)
                /\ op_st' = acc.st
                /\ shed_duration' = acc.shed_duration
                /\ last' = [called |-> TRUE, Pnl_req |-> req, Psto_cmax |-> cmax,
                            Psto_dmax |-> dmax,
                            Pgen_max |-> mg.generator.power_rated] @@ d
                /\ k' = k + 1
                /\ UNCHANGED <<pc, err>>
    /\ UNCHANGED <<mg, Esto_ini, mg_costs, d_args, d_res, fvars>>

\* index written by the recorder.rec call after the loop (line 254)
LastEstoIndex(n) == n - 1

\* sim_operation after the loop (lines 253-274): returns op_st
SimFinish ==
    /\ pc = "loop"
    /\ k = K_of(mg)
    /\ recorder' =
          IF recorder.on
          THEN [recorder EXCEPT
                  !.arrays.Esto = SetAt(@, LastEstoIndex(K_of(mg)), Esto)]
          ELSE recorder
    /\ op_st' = FinalStats(mg, op_st, Esto, Esto_ini)
    /\ pc' = "done"
    /\ UNCHANGED <<mg, k, Esto, Esto_ini, shed_duration, last, mg_costs, err,
                   d_args, d_res, fvars>>

-----------------------------------------------------------------------------
(* Economic evaluator: economics.py, and the lifetime methods of components.py *)

RECURSIVE RPow(_, _)
\* b ** n for an integer n >= 0
RPow(b, n) == IF n = 0 THEN One ELSE RMul(b, RPow(b, n - 1))

\* b ** e for a rational e >= 0; exact when e is an integer or b = 1. The
\* value is irrational otherwise and nan stands for it: the lifetimes of
\* the model are chosen so that no run needs it (arithmetic on nan is an
\* error of the model checker, never a silent value)
RPowQ(b, e) ==
    IF e[2] = 1 THEN RPow(b, e[1])
    ELSE IF b = One THEN One
    ELSE NaN

\* np.ceil of a finite rational, as an integer
Ceil(a) == -((-a[1]) \div a[2])

\* a value, or the exception raised instead of it
Value(v) == [raised |-> FALSE, err |-> "none", value |-> v]
Raise(e) == [raised |-> TRUE, err |-> e, value |-> Zero]

\* x / y on Python floats: ZeroDivisionError when y == 0.0, x / inf = 0.0
PyDiv(x, y) ==
    IF y = Zero THEN Raise("ZeroDivisionError")
    ELSE IF y = PosInf THEN Value(Zero)
    ELSE Value(RDiv(x, y))

\* x / y when y is a numpy float64: no exception; inf, -inf or nan when y == 0.0
NumpyDiv(x, y) ==
    IF y = Zero
    THEN IF RGt(x, Zero) THEN PosInf ELSE IF RLt(x, Zero) THEN NegInf ELSE NaN
    ELSE RDiv(x, y)

\* DispatchableGenerator.lifetime (components.py lines 86-89)
GeneratorLifetime(gen, oper_hours) == PyDiv(gen.lifetime_hours, oper_hours)

\* Battery.lifetime (components.py lines 130-137)
BatteryLifetime(sto, cycles) ==
    IF RGt(cycles, Zero)
    THEN LET lifetime_cycling == PyDiv(sto.lifetime_cycles, cycles)
         IN  Value(RMin(sto.lifetime_calendar, lifetime_cycling.value))
    ELSE Value(sto.lifetime_calendar)

\* CostFactors() (economics.py lines 17-31)
CostFactors0 ==
    [total |-> Zero, investment |-> Zero, replacement |-> Zero, om |-> Zero,
     fuel |-> Zero, salvage |-> Zero]

\* discount factor of year i (economics.py lines 54-55, 203-204)
DiscountFactor(project, i) == RDiv(One, RPow(RAdd(One, project.discount_rate), i))

SumDiscounts(project) ==
    RSum([i \in 1..project.lifetime |-> DiscountFactor(project, i)])

\* replacements number computed with floor instead of ceil - 1
ReplacementsNumber_Floor(project, lifetime) ==
    LET q == RDiv(<<project.lifetime, 1>>, lifetime)
    IN  Ceil(q) - (IF q[1] % q[2] = 0 THEN 0 ELSE 1)

\* the first purchase counted as a replacement
ReplacementsNumber_NoMinusOne(project, lifetime) ==
    Ceil(RDiv(<<project.lifetime, 1>>, lifetime))

\* replacements_number (economics.py line 59)
ReplacementsNumber(project, lifetime) ==
    Ceil(RDiv(<<project.lifetime, 1>>, lifetime)) - 1

\* remaining_life (economics.py line 66)
RemainingLife(project, lifetime) ==
    RSub(RMul(lifetime, <<1 + ReplacementsNumber(project, lifetime), 1>>),
         <<project.lifetime, 1>>)

\* the investment counted per unit, its price forgotten
InvestmentCost_Unpriced(quantity, investment_price) == quantity

\* investment_cost (economics.py line 71)
InvestmentCost(quantity, investment_price) ==
    RMul(investment_price, quantity)

\* O&M cost charged whatever the quantity
OmCost_NoQuantity(project, quantity, om_price) ==
    RMul(om_price, SumDiscounts(project))

\* om_cost (economics.py line 73)
OmCost(project, quantity, om_price) ==
    RMul(RMul(om_price, quantity), SumDiscounts(project))

\* replacement_years, replacement_factors and replacement_cost
\* (economics.py lines 61-63 and 75-78)
ReplacementCost(project, quantity, lifetime, replacement_price) ==
    LET replacements_number == ReplacementsNumber(project, lifetime)
        replacement_factors ==
            [i \in 1..replacements_number |->
                RDiv(One, RPowQ(RAdd(One, project.discount_rate),
                                RMul(<<i, 1>>, lifetime)))]
    IN  IF replacements_number = 0 THEN Zero
        ELSE RMul(RMul(replacement_price, quantity), RSum(replacement_factors))

\* salvage counted as a cost instead of a revenue
SalvageCost_Positive(project, quantity, lifetime, salvage_price) ==
    RMul(RMul(RDiv(RMul(salvage_price, RemainingLife(project, lifetime)),
                   lifetime), quantity),
         DiscountFactor(project, project.lifetime))

\* salvage_price_effective and salvage_cost (economics.py lines 68 and 80)
SalvageCost(project, quantity, lifetime, salvage_price) ==
    LET salvage_price_effective ==
            RDiv(RMul(salvage_price, RemainingLife(project, lifetime)), lifetime)
    IN  RMul(RMul(RNeg(salvage_price_effective), quantity),
             DiscountFactor(project, project.lifetime))

\* fuel priced once, without discounting over the project years
FuelCost_NoDiscount(project, fuel_consumption, fuel_price) ==
    RMul(fuel_price, fuel_consumption)

\* fuel_cost (economics.py line 82): the quantity does not enter
FuelCost(project, fuel_consumption, fuel_price) ==
    RMul(RMul(fuel_price, fuel_consumption), SumDiscounts(project))

\* CostFactors.from_prices (economics.py lines 33-86)
from_prices(project, quantity, lifetime, investment_price, replacement_price, salvage_price, om_price, fuel_consumption, fuel_price) ==
    IF lifetime = Zero
    THEN \* mg_project.lifetime/lifetime (line 59)
         Raise("ZeroDivisionError")
    ELSE
    LET investment_cost == InvestmentCost(quantity, investment_price)
        om_cost == OmCost(project, quantity, om_price)
        replacement_cost ==
            ReplacementCost(project, quantity, lifetime, replacement_price)
        salvage_cost == SalvageCost(project, quantity, lifetime, salvage_price)
        fuel_cost == FuelCost(project, fuel_consumption, fuel_price)
        total_cost ==
            RAdd(RAdd(RAdd(RAdd(investment_cost, replacement_cost), om_cost),
                      fuel_cost), salvage_cost)
    IN  Value([total |-> total_cost, investment |-> investment_cost,
               replacement |-> replacement_cost, om |-> om_cost,
               fuel |-> fuel_cost, salvage |-> salvage_cost])

\* the sum keeps the total of its left operand
CostFactorsAdd_TotalOfSelf(a, b) ==
    [total |-> a.total,
     investment |-> RAdd(a.investment, b.investment),
     replacement |-> RAdd(a.replacement, b.replacement),
     om |-> RAdd(a.om, b.om),
     fuel |-> RAdd(a.fuel, b.fuel),
     salvage |-> RAdd(a.salvage, b.salvage)]

\* the salvage of the right operand subtracted instead of added
CostFactorsAdd_SalvageSubtracted(a, b) ==
    [total |-> RAdd(a.total, b.total),
     investment |-> RAdd(a.investment, b.investment),
     replacement |-> RAdd(a.replacement, b.replacement),
     om |-> RAdd(a.om, b.om),
     fuel |-> RAdd(a.fuel, b.fuel),
     salvage |-> RSub(a.salvage, b.salvage)]

\* CostFactors.__add__ (economics.py lines 88-100)
CostFactorsAdd(a, b) ==
    [total |-> RAdd(a.total, b.total),
     investment |-> RAdd(a.investment, b.investment),
     replacement |-> RAdd(a.replacement, b.replacement),
     om |-> RAdd(a.om, b.om),
     fuel |-> RAdd(a.fuel, b.fuel),
     salvage |-> RAdd(a.salvage, b.salvage)]

\* only one of the sources counted in the system costs
SumCosts_OneSource(costs) ==
    IF DOMAIN costs = {} THEN CostFactors0
    ELSE CostFactorsAdd(CostFactors0, costs[CHOOSE x \in DOMAIN costs : TRUE])

\* sum(nd_costs.values(), start=CostFactors()) (line 207)
SumCosts(costs) ==
    LET S[names \in SUBSET DOMAIN costs] ==
            IF names = {} THEN CostFactors0
            ELSE LET x == CHOOSE y \in names : TRUE
                 IN  CostFactorsAdd(S[names \ {x}], costs[x])
    IN  S[DOMAIN costs]

\* the generator salvaged at its replacement price
GeneratorCosts_SalvageAtReplacementPrice(m, st) ==
    LET gen == m.generator
        lifetime == GeneratorLifetime(gen, st.gen_hours)
    IN  IF lifetime.raised THEN lifetime
        ELSE from_prices(m.project, gen.power_rated, lifetime.value,
                 gen.investment_price,
                 RMul(gen.investment_price, gen.replacement_price_ratio),
                 RMul(gen.investment_price, gen.replacement_price_ratio),
                 RMul(gen.om_price_hours, st.gen_hours),
                 st.gen_fuel, gen.fuel_price)

\* costs of the dispatchable generator (economics.py lines 163-174)
GeneratorCosts(m, st) ==
    LET gen == m.generator
        lifetime == GeneratorLifetime(gen, st.gen_hours)
    IN  IF lifetime.raised THEN lifetime
        ELSE from_prices(m.project, gen.power_rated, lifetime.value,
                 gen.investment_price,
                 RMul(gen.investment_price, gen.replacement_price_ratio),
                 RMul(gen.investment_price, gen.salvage_price_ratio),
                 RMul(gen.om_price_hours, st.gen_hours),
                 st.gen_fuel, gen.fuel_price)

\* costs of the energy storage (economics.py lines 177-187)
StorageCosts(m, st) ==
    LET sto == m.storage
        lifetime == BatteryLifetime(sto, st.storage_cycles)
    IN  IF lifetime.raised THEN lifetime
        ELSE from_prices(m.project, sto.energy_rated, lifetime.value,
                 sto.investment_price,
                 RMul(sto.investment_price, sto.replacement_price_ratio),
                 RMul(sto.investment_price, sto.salvage_price_ratio),
                 sto.om_price, Zero, Zero)

\* costs of one non-dispatchable source (economics.py lines 192-200)
NonDispatchableCosts(m, nd) ==
    from_prices(m.project, nd.power_rated, nd.lifetime,
        nd.investment_price,
        RMul(nd.investment_price, nd.replacement_price_ratio),
        RMul(nd.investment_price, nd.salvage_price_ratio),
        nd.om_price, Zero, Zero)

\* levelized cost of energy (economics.py lines 210-211); served_energy comes
\* from sim_operation as a numpy float64 (np.sum(mg.load)*dt - shed_energy)
Lcoe(npc, crf, served_energy) == NumpyDiv(RMul(npc, crf), served_energy)

\* sim_economics (economics.py lines 158-217): the MicrogridCosts, or the
\* exception of the first statement that raises
sim_economics(m, st) ==
    LET gen_costs == GeneratorCosts(m, st)
        sto_costs == StorageCosts(m, st)
        names == DOMAIN m.nondispatchables
        nd_res == [x \in names |-> NonDispatchableCosts(m, m.nondispatchables[x])]
        nd_costs == [x \in names |-> nd_res[x].value]
        crf == RDiv(One, SumDiscounts(m.project))
        system_costs ==
            CostFactorsAdd(CostFactorsAdd(gen_costs.value, sto_costs.value),
                           SumCosts(nd_costs))
        npc == system_costs.total
    IN  IF gen_costs.raised THEN gen_costs
        ELSE IF sto_costs.raised THEN sto_costs
        ELSE IF \E x \in names : nd_res[x].raised
             THEN Raise("ZeroDivisionError")
        ELSE Value([lcoe |-> Lcoe(npc, crf, st.served_energy), npc |-> npc,
                    system |-> system_costs, generator |-> gen_costs.value,
                    storage |-> sto_costs.value, nondispatchables |-> nd_costs])

\* the call sim_economics(mg, oper_stats) on the statistics sim_operation returned
SimEconomics ==
    /\ pc = "done"
    /\ LET r == sim_economics(mg, op_st)
       IN  IF r.raised
           THEN /\ pc' = "econ_raised"
                /\ err' = r.err
                /\ UNCHANGED mg_costs
           ELSE /\ pc' = "costed"
                /\ mg_costs' = <<r.value>>
                /\ UNCHANGED err
    /\ UNCHANGED <<mg, recorder, k, Esto, Esto_ini, op_st, shed_duration, last,
                   d_args, d_res, fvars>>

Next == SimEntry \/ SimStep \/ SimFinish \/ SimEconomics

\* a run of sim_operation followed by sim_economics, for every microgrid of
\* Microgrids, with and without a recorder
Spec == Init /\ [][Next]_vars

-----------------------------------------------------------------------------
(* Direct calls of dispatch, with arguments of either sign *)

DispatchVals == {R(n, 2) : n \in -MaxP..MaxP}

InitDispatch ==
    /\ mg = <<>>
    /\ recorder = [on |-> FALSE, arrays |-> NoArrays]
    /\ pc = "idle"
    /\ k = 0
    /\ Esto = Zero
    /\ Esto_ini = Zero
    /\ op_st = OperationStats0
    /\ shed_duration = Zero
    /\ last = NoCall
    /\ mg_costs = NoCosts
    /\ err = "none"
    /\ d_args \in [called : {FALSE}, Pnl_req : DispatchVals,
                    Psto_cmax : DispatchVals, Psto_dmax : DispatchVals,
                    Pgen_max : DispatchVals]
    /\ d_res = NoResult
    /\ f_args = NoCall
    /\ f_res = NoResult
    /\ f_other = NoCall
    /\ f_sum = NoResult

\* the call dispatch(Pnl_req, Psto_cmax, Psto_dmax, Pgen_max)
DispatchCall ==
    /\ pc = "idle"
    /\ ~d_args.called
    /\ d_args' = [d_args EXCEPT !.called = TRUE]
    /\ d_res' = dispatch(d_args.Pnl_req, d_args.Psto_cmax, d_args.Psto_dmax,
                         d_args.Pgen_max)
    /\ UNCHANGED <<simvars, fvars>>

NextDispatch == DispatchCall

SpecDispatch == InitDispatch /\ [][NextDispatch]_vars

\* the precondition of dispatch: Psto_cmax <= 0 <= Psto_dmax and Pgen_max >= 0
DispatchPre ==
    /\ d_args.called
    /\ RLe(d_args.Psto_cmax, Zero)
    /\ RLe(Zero, d_args.Psto_dmax)
    /\ RGe(d_args.Pgen_max, Zero)

-----------------------------------------------------------------------------
(* CostFactors.from_prices and CostFactors.__add__ called directly *)

\* longest project lifetime of a direct call, in years
MaxL == 4

DiscountRateVals == {Zero, One, R(-1, 2)}
LifetimeVals == {Zero, Half, One, R(3, 2), Two, Three, <<MaxL + 1, 1>>}
QuantityVals == {Zero, Two}
ReplacementPriceVals == {Zero, Two}
SalvagePriceVals == {Zero, One}
FuelConsumptionVals == {Zero, Two}
FuelPriceVals == {Zero, One}

\* the Project argument of from_prices
PriceProjects ==
    {[lifetime |-> L, discount_rate |-> r, timestep |-> One] :
        L \in 1..MaxL, r \in DiscountRateVals}

\* the arguments of from_prices; a fractional component lifetime comes with
\* a zero discount rate, so that every discount factor is a rational
PriceArgs ==
    {a \in [called : {FALSE}, project : PriceProjects, quantity : QuantityVals,
            lifetime : LifetimeVals, investment_price : {Three},
            replacement_price : ReplacementPriceVals,
            salvage_price : SalvagePriceVals, om_price : {R(1, 4)},
            fuel_consumption : FuelConsumptionVals,
            fuel_price : FuelPriceVals] :
        a.lifetime[2] = 1 \/ a.project.discount_rate = Zero}

\* type(other) == CostFactors (economics.py line 90)
IsCostFactors(other) == DOMAIN other = DOMAIN CostFactors0

\* self + other where other may be any object (economics.py lines 88-100)
CostFactors_add(self, other) ==
    IF IsCostFactors(other) THEN Value(CostFactorsAdd(self, other))
    ELSE Raise("NotImplementedError")

\* right operands of +: CostFactors(), two priced components, and a float
AddOperands ==
    {CostFactors0,
     from_prices([lifetime |-> 3, discount_rate |-> One, timestep |-> One],
                 Two, Two, Three, Two, One, R(1, 4), Two, One).value,
     from_prices([lifetime |-> 2, discount_rate |-> Zero, timestep |-> One],
                 One, Three, One, One, Two, Half, Zero, Zero).value,
     [float |-> One]}

InitPrices ==
    /\ mg = <<>>
    /\ recorder = [on |-> FALSE, arrays |-> NoArrays]
    /\ pc = "idle"
    /\ k = 0
    /\ Esto = Zero
    /\ Esto_ini = Zero
    /\ op_st = OperationStats0
    /\ shed_duration = Zero
    /\ last = NoCall
    /\ mg_costs = NoCosts
    /\ err = "none"
    /\ d_args = NoCall
    /\ d_res = NoResult
    /\ f_args \in PriceArgs
    /\ f_res = NoResult
    /\ f_other = NoCall
    /\ f_sum = NoResult

\* the call CostFactors.from_prices(project, quantity, lifetime, ...)
FromPricesCall ==
    /\ pc = "idle"
    /\ ~f_args.called
    /\ f_args' = [f_args EXCEPT !.called = TRUE]
    /\ f_res' = from_prices(f_args.project, f_args.quantity, f_args.lifetime,
                            f_args.investment_price, f_args.replacement_price,
                            f_args.salvage_price, f_args.om_price,
                            f_args.fuel_consumption, f_args.fuel_price)
    /\ UNCHANGED <<simvars, d_args, d_res, f_other, f_sum>>

\* the call f_res + other on the returned CostFactors
CostFactorsAddCall ==
    /\ pc = "idle"
    /\ f_args.called
    /\ ~f_res.raised
    /\ ~f_other.called
    /\ \E other \in AddOperands :
        /\ f_other' = [called |-> TRUE, other |-> other]
        /\ f_sum' = CostFactors_add(f_res.value, other)
    /\ UNCHANGED <<simvars, d_args, d_res, f_args, f_res>>

NextPrices == FromPricesCall \/ CostFactorsAddCall

SpecPrices == InitPrices /\ [][NextPrices]_vars

\* from_prices has returned a CostFactors
Priced == f_args.called /\ ~f_res.raised

\* f_res + other has returned a CostFactors
Added == Priced /\ f_other.called /\ ~f_sum.raised

-----------------------------------------------------------------------------
(* sim_operation then sim_economics over microgrids whose price ratios,   *)
(* discount rate, battery cycle life and number of sources vary           *)

\* (replacement_price_ratio, salvage_price_ratio) of a component
RatioPairs == {<<One, One>>, <<Half, One>>, <<One, Half>>}

EconProjects ==
    {[lifetime |-> 4, discount_rate |-> r, timestep |-> One] : r \in {Zero, One}}

\* components.py DispatchableGenerator with the two price ratios rp
EconGenerator(rp) ==
    [power_rated |-> Two, fuel_intercept |-> <<1, 8>>, fuel_slope |-> <<1, 4>>,
     fuel_price |-> One, investment_price |-> <<4, 1>>,
     om_price_hours |-> <<1, 8>>, lifetime_hours |-> <<6, 1>>,
     replacement_price_ratio |-> rp[1], salvage_price_ratio |-> rp[2]]

\* components.py Battery, initially full, with the two price ratios rp; the
\* cycle life binds (lifetime_cycles = 1) where the discount rate is zero
EconBattery(rp, rate) ==
    [Battery(Two, Zero, Zero, One) EXCEPT
        !.lifetime_cycles = IF rate = Zero THEN One ELSE <<1000, 1>>,
        !.replacement_price_ratio = rp[1], !.salvage_price_ratio = rp[2]]

\* components.py Photovoltaic of rated power p and lifetime lt under a
\* constant irradiance of n instants
EconPhotovoltaic(p, lt, rp, n) ==
    [Photovoltaic(p, [i \in 1..n |-> One]) EXCEPT
        !.lifetime = lt,
        !.replacement_price_ratio = rp[1], !.salvage_price_ratio = rp[2]]

\* Microgrid.nondispatchables: no source, one source, or two
EconSources(rp, n) ==
    {<<>>,
     [x \in {"pv"} |-> EconPhotovoltaic(Two, Three, rp, n)],
     [x \in {"pv", "pv2"} |->
        IF x = "pv" THEN EconPhotovoltaic(Two, Three, rp, n)
        ELSE EconPhotovoltaic(One, Two, rp, n)]}

EconMicrogrids ==
    UNION {
      {[project |-> pr, load |-> ld, generator |-> EconGenerator(rg),
        storage |-> EconBattery(rb, pr.discount_rate), nondispatchables |-> nds]
       : pr \in EconProjects, ld \in SeqsOfLen({One, <<5, 1>>}, n),
         rg \in RatioPairs, rb \in RatioPairs,
         nds \in UNION {EconSources(rn, n) : rn \in RatioPairs}}
      : n \in 1..MaxK}

InitEcon ==
    /\ mg \in EconMicrogrids
    /\ recorder \in {[on |-> b, arrays |-> NoArrays] : b \in BOOLEAN}
    /\ pc = "entry"
    /\ k = 0
    /\ Esto = Zero
    /\ Esto_ini = Zero
    /\ op_st = OperationStats0
    /\ shed_duration = Zero
    /\ last = NoCall
    /\ mg_costs = NoCosts
    /\ err = "none"
    /\ d_args = NoCall
    /\ d_res = NoResult
    /\ f_args = NoCall
    /\ f_res = NoResult
    /\ f_other = NoCall
    /\ f_sum = NoResult

SpecEcon == InitEcon /\ [][Next]_vars

\* sim_economics has returned its MicrogridCosts
Costed == pc = "costed"

\* every way the program produces a CostFactors: the direct calls of
\* from_prices and +, and the runs of sim_economics
InitCosts == InitPrices \/ InitEcon

NextCosts == NextPrices \/ Next

SpecCosts == InitCosts /\ [][NextCosts]_vars

-----------------------------------------------------------------------------
(* sim_operation alone, over longer series and a timestep above one hour *)

\* longest load series of these runs
MaxT == 3

OperProjects ==
    {[lifetime |-> 4, discount_rate |-> One, timestep |-> dt] :
        dt \in {Half, One, Two}}

OperBatteries ==
    {Battery(Two, Zero, Zero, Zero), Battery(Two, <<1, 4>>, Zero, One),
     Battery(Zero, <<1, 4>>, Half, One)}

OperMicrogrids ==
    UNION {
      {[project |-> pr, load |-> ld, generator |-> g, storage |-> b,
        nondispatchables |-> nds]
       : pr \in OperProjects, ld \in SeqsOfLen({Zero, Three}, n),
         g \in {x \in Generators : x.power_rated # Zero}, b \in OperBatteries,
         nds \in {<<>>} \cup
                 {[x \in {"pv"} |-> Photovoltaic(Two, irr)] :
                     irr \in SeqsOfLen(IrradianceVals, n)}}
      : n \in 1..MaxT}

InitOper ==
    /\ mg \in OperMicrogrids
    /\ recorder \in {[on |-> b, arrays |-> NoArrays] : b \in BOOLEAN}
    /\ pc = "entry"
    /\ k = 0
    /\ Esto = Zero
    /\ Esto_ini = Zero
    /\ op_st = OperationStats0
    /\ shed_duration = Zero
    /\ last = NoCall
    /\ mg_costs = NoCosts
    /\ err = "none"
    /\ d_args = NoCall
    /\ d_res = NoResult
    /\ f_args = NoCall
    /\ f_res = NoResult
    /\ f_other = NoCall
    /\ f_sum = NoResult

NextOper == SimEntry \/ SimStep \/ SimFinish

SpecOper == InitOper /\ [][NextOper]_vars

-----------------------------------------------------------------------------
(* sim_operation on microgrids built with a configuration error: nothing  *)
(* in components.py validates the fields of the dataclasses               *)

\* a microgrid of Microgrids with a source whose generator, storage or
\* source has a negative rated capacity
NegativeRatings ==
    UNION {
      {[m EXCEPT !.generator.power_rated = <<-1, 1>>],
       [m EXCEPT !.storage.energy_rated = <<-2, 1>>],
       [m EXCEPT !.nondispatchables["pv"].power_rated = <<-2, 1>>]}
      : m \in {x \in Microgrids :
                 /\ ~NoSource(x)
                 /\ x.generator.power_rated # Zero
                 /\ x.storage.energy_rated # Zero
                 /\ x.storage.loss_factor = Zero
                 /\ x.nondispatchables["pv"].power_rated # Zero}}

\* a microgrid whose load series and irradiance series differ in length
MismatchedLengths ==
    {[project |-> pr, load |-> ld, generator |-> g,
      storage |-> Battery(Two, Zero, Zero, One),
      nondispatchables |-> [x \in {"pv"} |-> Photovoltaic(Two, irr)]]
     : pr \in Projects, g \in {x \in Generators : x.power_rated # Zero},
       ld \in UNION {SeqsOfLen({One, Three}, n) : n \in 1..MaxK},
       irr \in {[i \in 1..n |-> One] : n \in 1..(MaxK + 1)} }

ConfigErrors ==
    {m \in NegativeRatings : Len(m.load) = MaxK}
    \cup {m \in MismatchedLengths :
            Len(m.load) # Len(m.nondispatchables["pv"].irradiance)}

InitConfig ==
    /\ mg \in ConfigErrors
    /\ recorder \in {[on |-> b, arrays |-> NoArrays] : b \in BOOLEAN}
    /\ pc = "entry"
    /\ k = 0
    /\ Esto = Zero
    /\ Esto_ini = Zero
    /\ op_st = OperationStats0
    /\ shed_duration = Zero
    /\ last = NoCall
    /\ mg_costs = NoCosts
    /\ err = "none"
    /\ d_args = NoCall
    /\ d_res = NoResult
    /\ f_args = NoCall
    /\ f_res = NoResult
    /\ f_other = NoCall
    /\ f_sum = NoResult

SpecConfig == InitConfig /\ [][NextOper]_vars

-----------------------------------------------------------------------------
(* Claims *)

\* C1: for every call of dispatch with Psto_cmax <= 0 <= Psto_dmax and
\* Pgen_max >= 0, the returned powers balance the request:
\* Pnl_req = Pgen + Psto + Pshed - Pspill.
C1_DispatchBalance ==
    DispatchPre =>
        d_args.Pnl_req =
            RSub(RAdd(RAdd(d_res.Pgen, d_res.Psto), d_res.Pshed), d_res.Pspill)

\* a call where storage, generator and shedding all contribute
C1_Witness ==
    /\ DispatchPre
    /\ RGt(d_res.Psto, Zero)
    /\ RGt(d_res.Pgen, Zero)
    /\ RGt(d_res.Pshed, Zero)

\* C2: under the same precondition the result satisfies 0 <= Pgen <= Pgen_max,
\* Psto_cmax <= Psto <= Psto_dmax, Pshed >= 0 and Pspill >= 0.
C2_DispatchBounds ==
    DispatchPre =>
        /\ RLe(Zero, d_res.Pgen) /\ RLe(d_res.Pgen, d_args.Pgen_max)
        /\ RLe(d_args.Psto_cmax, d_res.Psto) /\ RLe(d_res.Psto, d_args.Psto_dmax)
        /\ RGe(d_res.Pshed, Zero)
        /\ RGe(d_res.Pspill, Zero)

\* a deficit larger than what storage can discharge: storage sits at its limit
C2_Witness ==
    /\ DispatchPre
    /\ RGt(d_args.Pnl_req, d_args.Psto_dmax)
    /\ RGt(d_args.Psto_dmax, Zero)
    /\ d_res.Psto = d_args.Psto_dmax

\* C4: deficit priority (storage, then generator, then shedding): for
\* Pnl_req >= 0 under the precondition, Psto = min(Pnl_req, Psto_dmax),
\* Pgen = min(Pnl_req - Psto, Pgen_max), Pshed = Pnl_req - Psto - Pgen and
\* Pspill = 0; hence Pgen > 0 only if Psto = Psto_dmax, Pshed > 0 only if
\* Psto = Psto_dmax and Pgen = Pgen_max, and Pgen = 0 when Pnl_req < Psto_dmax.
C4_DeficitPriority ==
    (DispatchPre /\ RGe(d_args.Pnl_req, Zero)) =>
        /\ d_res.Psto = RMin(d_args.Pnl_req, d_args.Psto_dmax)
        /\ d_res.Pgen = RMin(RSub(d_args.Pnl_req, d_res.Psto), d_args.Pgen_max)
        /\ d_res.Pshed = RSub(RSub(d_args.Pnl_req, d_res.Psto), d_res.Pgen)
        /\ d_res.Pspill = Zero
        /\ (RGt(d_res.Pgen, Zero) => d_res.Psto = d_args.Psto_dmax)
        /\ (RGt(d_res.Pshed, Zero) =>
               d_res.Psto = d_args.Psto_dmax /\ d_res.Pgen = d_args.Pgen_max)
        /\ (RLt(d_args.Pnl_req, d_args.Psto_dmax) => d_res.Pgen = Zero)

\* a deficit the generator covers in part load after storage gave its maximum
C4_Witness ==
    /\ DispatchPre
    /\ RGt(d_args.Pnl_req, Zero)
    /\ RGt(d_args.Psto_dmax, Zero)
    /\ RGt(d_res.Pgen, Zero)
    /\ RLt(d_res.Pgen, d_args.Pgen_max)
    /\ d_res.Pshed = Zero

\* C5: surplus behaviour: for Pnl_req < 0 with Psto_cmax <= 0, Pgen = 0,
\* Pshed = 0, Psto = max(Pnl_req, Psto_cmax) and Pspill = Psto - Pnl_req; hence
\* Pspill > 0 only if Psto = Psto_cmax.
C5_SurplusBehaviour ==
    (d_args.called /\ RLt(d_args.Pnl_req, Zero) /\ RLe(d_args.Psto_cmax, Zero)) =>
        /\ d_res.Pgen = Zero
        /\ d_res.Pshed = Zero
        /\ d_res.Psto = RMax(d_args.Pnl_req, d_args.Psto_cmax)
        /\ d_res.Pspill = RSub(d_res.Psto, d_args.Pnl_req)
        /\ (RGt(d_res.Pspill, Zero) => d_res.Psto = d_args.Psto_cmax)

\* a surplus beyond the charging limit: part is stored, the rest is spilled
C5_Witness ==
    /\ d_args.called
    /\ RLt(d_args.Pnl_req, Zero)
    /\ RLt(d_args.Psto_cmax, Zero)
    /\ d_res.Psto = d_args.Psto_cmax
    /\ RGt(d_res.Pspill, Zero)

\* sim_operation has set the initial storage state
OpStarted == pc \in {"loop", "op_raised", "done", "costed", "econ_raised"}

\* sim_operation has returned its OperationStats
OpReturned == pc \in {"done", "costed", "econ_raised"}

\* sim_economics has returned or raised
EconEnded == pc \in {"costed", "econ_raised"}

\* C3: in sim_operation, for any series and any storage parameters allowed by
\* the data model (SoC_min and SoC_ini in [0,1], loss factor in [0,1)), the
\* storage energy satisfies SoC_min * energy_rated <= Esto <= energy_rated at
\* every instant: in the initial state and after every storage update.
C3_StorageEnergyWithinLimits ==
    OpStarted => RLe(Esto_min(mg), Esto) /\ RLe(Esto, Esto_max(mg))

\* C6: after sim_operation over K instants with a recorder, Esto has K+1
\* samples, Esto[k] (k < K) is the energy before the update of instant k,
\* Esto[0] = SoC_ini * energy_rated and Esto[K] is the energy after the last
\* update; the power arrays have K samples, entry k being the value decided
\* at instant k.
C6_RecordedTrajectory ==
    /\ (pc = "loop" /\ recorder.on /\ k > 0) =>
          /\ recorder.arrays.Pgen[k] = last.Pgen
          /\ recorder.arrays.Psto[k] = last.Psto
          /\ recorder.arrays.Pspill[k] = last.Pspill
          /\ recorder.arrays.Pshed[k] = last.Pshed
          /\ recorder.arrays.Prep[k] = renew_potential(mg, k)
          /\ StorageUpdate(mg, recorder.arrays.Esto[k], last.Psto) = Esto
    /\ (OpReturned /\ recorder.on) =>
          LET a == recorder.arrays
              n == K_of(mg)
          IN  /\ Len(a.Esto) = n + 1
              /\ Len(a.Prep) = n /\ Len(a.Pgen) = n /\ Len(a.Psto) = n
              /\ Len(a.Pspill) = n /\ Len(a.Pshed) = n
              /\ a.Esto[1] = Esto_ini
              /\ a.Esto[n + 1] = Esto
              /\ \A i \in 1..n : a.Esto[i + 1] = StorageUpdate(mg, a.Esto[i], a.Psto[i])

\* C7: for any run of sim_operation, storage_loss_energy = storage_char_energy
\* - storage_dis_energy - (E_final - E_initial); it is the loss term of the
\* storage update summed over the instants, alpha * |Psto| * dt (checked on
\* the recorded Psto when there is a recorder), so it is >= 0 and equals
\* alpha * (charged + discharged energy).
C7_StorageLossBalance ==
    OpReturned =>
        LET dt == mg.project.timestep
            alpha == mg.storage.loss_factor
        IN  /\ op_st.storage_loss_energy =
                  RSub(RSub(op_st.storage_char_energy, op_st.storage_dis_energy),
                       RSub(Esto, Esto_ini))
            /\ op_st.storage_loss_energy =
                  RMul(alpha, RAdd(op_st.storage_char_energy,
                                   op_st.storage_dis_energy))
            /\ RGe(op_st.storage_loss_energy, Zero)
            /\ recorder.on =>
                  op_st.storage_loss_energy =
                      RSum([i \in 1..K_of(mg) |->
                              RMul(RMul(alpha, RAbs(recorder.arrays.Psto[i])), dt)])

\* a recorded run with losses on both a charge and a discharge
C7_Witness ==
    /\ OpReturned
    /\ recorder.on
    /\ RGt(mg.storage.loss_factor, Zero)
    /\ RGt(op_st.storage_char_energy, Zero)
    /\ RGt(op_st.storage_dis_energy, Zero)
    /\ RGt(op_st.storage_loss_energy, Zero)

\* C8: sim_operation does not raise on a zero denominator but returns +inf:
\* shed_rate when the desired load energy is zero, spilled_rate when the
\* renewable potential energy is zero, renew_rate when the served energy is
\* zero, storage_cycles when the rated energy is zero; otherwise the ratio is
\* the finite quotient.
C8_InfiniteRatios ==
    /\ (pc = "op_raised") => err # "ZeroDivisionError"
    /\ OpReturned =>
        LET load_energy == RMul(SumLoad(mg), mg.project.timestep)
            throughput == RAdd(op_st.storage_char_energy, op_st.storage_dis_energy)
        IN  /\ IF load_energy = Zero THEN op_st.shed_rate = PosInf
               ELSE /\ IsFinite(op_st.shed_rate)
                    /\ RMul(op_st.shed_rate, load_energy) = op_st.shed_energy
            /\ IF op_st.renew_potential_energy = Zero
               THEN op_st.spilled_rate = PosInf
               ELSE /\ IsFinite(op_st.spilled_rate)
                    /\ RMul(op_st.spilled_rate, op_st.renew_potential_energy)
                           = op_st.spilled_energy
            /\ IF op_st.served_energy = Zero THEN op_st.renew_rate = PosInf
               ELSE /\ IsFinite(op_st.renew_rate)
                    /\ RMul(RSub(One, op_st.renew_rate), op_st.served_energy)
                           = op_st.gen_energy
            /\ IF mg.storage.energy_rated = Zero
               THEN op_st.storage_cycles = PosInf
               ELSE /\ IsFinite(op_st.storage_cycles)
                    /\ RMul(op_st.storage_cycles,
                            RMul(Two, mg.storage.energy_rated)) = throughput

\* a run over at least one instant whose four denominators are all zero
C8_Witness ==
    /\ OpReturned
    /\ K_of(mg) > 0
    /\ SumLoad(mg) = Zero
    /\ op_st.renew_potential_energy = Zero
    /\ op_st.served_energy = Zero
    /\ mg.storage.energy_rated = Zero
    /\ op_st.shed_rate = PosInf

\* C9: when the served energy of the operation statistics is zero,
\* sim_economics does not raise and returns a levelized cost of electricity
\* equal to +inf.
C9_LcoeInfiniteWhenNothingServed ==
    (EconEnded /\ op_st.served_energy = Zero) =>
        /\ pc = "costed"
        /\ mg_costs[1].lcoe = PosInf

\* C10: for a microgrid in which a priced component has zero quantity
\* (generator power_rated = 0, storage energy_rated = 0, or a source with
\* power_rated = 0), sim_operation then sim_economics completes without error
\* and that component's CostFactors entry has every field equal to zero.
C10_ZeroQuantityCosts ==
    EconEnded =>
        /\ mg.generator.power_rated = Zero =>
              pc = "costed" /\ mg_costs[1].generator = CostFactors0
        /\ mg.storage.energy_rated = Zero =>
              pc = "costed" /\ mg_costs[1].storage = CostFactors0
        /\ \A x \in DOMAIN mg.nondispatchables :
              mg.nondispatchables[x].power_rated = Zero =>
                  pc = "costed" /\ mg_costs[1].nondispatchables[x] = CostFactors0

\* C11 (as stated): from_prices called with quantity = 0, for any project,
\* any component lifetime > 0, any prices and any fuel_consumption and
\* fuel_price, returns a CostFactors whose six fields are all zero.
C11_ZeroQuantityAllZero ==
    (Priced /\ f_args.quantity = Zero) => f_res.value = CostFactors0

\* C11 (amended): from_prices called with quantity = 0 returns zero
\* investment, replacement, om and salvage; fuel is fuel_price *
\* fuel_consumption * sum of the discount factors whatever the quantity, and
\* total equals fuel; the six fields are all zero when fuel_price *
\* fuel_consumption = 0.
C11_ZeroQuantityFuelOnly ==
    (Priced /\ f_args.quantity = Zero) =>
        /\ f_res.value.investment = Zero
        /\ f_res.value.replacement = Zero
        /\ f_res.value.om = Zero
        /\ f_res.value.salvage = Zero
        /\ f_res.value.fuel =
              RMul(RMul(f_args.fuel_price, f_args.fuel_consumption),
                   SumDiscounts(f_args.project))
        /\ f_res.value.total = f_res.value.fuel
        /\ (RMul(f_args.fuel_price, f_args.fuel_consumption) = Zero =>
                f_res.value = CostFactors0)

\* zero quantity of a component that would be replaced and salvaged, with
\* fuel consumed and priced
C11_Witness ==
    /\ Priced
    /\ f_args.quantity = Zero
    /\ f_args.replacement_price # Zero
    /\ f_args.salvage_price # Zero
    /\ RLt(f_args.lifetime, <<f_args.project.lifetime, 1>>)
    /\ RGt(RemainingLife(f_args.project, f_args.lifetime), Zero)
    /\ f_res.value.fuel # Zero

\* C12: from_prices makes ceil(project lifetime / component lifetime) - 1
\* replacements, and its replacement cost is replacement_price * quantity *
\* the sum over i = 1..replacements of 1/(1 + discount_rate)^(i * lifetime);
\* when the project lifetime is an exact multiple m of the component
\* lifetime there are m - 1 replacements, the remaining life is 0 and the
\* salvage is 0.
C12_Replacements ==
    Priced =>
        LET L == <<f_args.project.lifetime, 1>>
            lifetime == f_args.lifetime
            n == ReplacementsNumber(f_args.project, lifetime)
        IN  /\ n >= 0
            /\ RLt(RMul(<<n, 1>>, lifetime), L)
            /\ RLe(L, RMul(<<n + 1, 1>>, lifetime))
            /\ f_res.value.replacement =
                  RMul(RMul(f_args.replacement_price, f_args.quantity),
                       RSum([i \in 1..n |->
                                RDiv(One, RPowQ(RAdd(One, f_args.project.discount_rate),
                                                RMul(<<i, 1>>, lifetime)))]))
            /\ \A m \in 1..(2 * MaxL) :
                  RMul(<<m, 1>>, lifetime) = L =>
                      /\ n = m - 1
                      /\ RemainingLife(f_args.project, lifetime) = Zero
                      /\ f_res.value.salvage = Zero

\* a component replaced at least once, at a discounted price, whose
\* lifetime divides the project lifetime
C12_Witness ==
    /\ Priced
    /\ f_args.quantity # Zero
    /\ f_args.replacement_price # Zero
    /\ f_args.salvage_price # Zero
    /\ f_args.project.discount_rate # Zero
    /\ \E m \in 2..MaxL : RMul(<<m, 1>>, f_args.lifetime) = <<f_args.project.lifetime, 1>>
    /\ RLt(Zero, f_res.value.replacement)
    /\ f_res.value.salvage = Zero

\* C13: when the component lifetime exceeds the project lifetime, from_prices
\* makes zero replacements, the replacement cost is 0, the remaining life is
\* lifetime - project lifetime, and the salvage is the salvage price scaled
\* by that fraction of the lifetime (times quantity, discounted to the last
\* project year, as a negative cost).
C13_LongLivedComponent ==
    (Priced /\ RGt(f_args.lifetime, <<f_args.project.lifetime, 1>>)) =>
        LET L == <<f_args.project.lifetime, 1>>
            lifetime == f_args.lifetime
        IN  /\ ReplacementsNumber(f_args.project, lifetime) = 0
            /\ f_res.value.replacement = Zero
            /\ RemainingLife(f_args.project, lifetime) = RSub(lifetime, L)
            /\ f_res.value.salvage =
                  RNeg(RMul(RMul(RMul(f_args.salvage_price,
                                      RDiv(RSub(lifetime, L), lifetime)),
                                 f_args.quantity),
                            RDiv(One, RPow(RAdd(One, f_args.project.discount_rate),
                                           f_args.project.lifetime))))

\* a bought component with a replacement price that outlives the project and
\* is salvaged
C13_Witness ==
    /\ Priced
    /\ RGt(f_args.lifetime, <<f_args.project.lifetime, 1>>)
    /\ f_args.quantity # Zero
    /\ f_args.replacement_price # Zero
    /\ f_args.project.discount_rate # Zero
    /\ RLt(f_res.value.salvage, Zero)

\* the salvage cost of quantity units of lifetime years bought at the unit
\* salvage price price: -(price * remaining life / lifetime) * quantity *
\* 1/(1 + discount_rate)^L
SalvageOf(project, quantity, lifetime, price) ==
    RNeg(RMul(RMul(RDiv(RMul(price, RemainingLife(project, lifetime)), lifetime),
                   quantity),
              RDiv(One, RPow(RAdd(One, project.discount_rate), project.lifetime))))

\* the salvage fields of a MicrogridCosts c of microgrid mg are SalvageOf
\* with each component's unit price given by price(component)
SalvageFields(c, price(_)) ==
    /\ c.generator.salvage =
          SalvageOf(mg.project, mg.generator.power_rated,
                    GeneratorLifetime(mg.generator, op_st.gen_hours).value,
                    price(mg.generator))
    /\ c.storage.salvage =
          SalvageOf(mg.project, mg.storage.energy_rated,
                    BatteryLifetime(mg.storage, op_st.storage_cycles).value,
                    price(mg.storage))
    /\ \A x \in DOMAIN mg.nondispatchables :
          c.nondispatchables[x].salvage =
              SalvageOf(mg.project, mg.nondispatchables[x].power_rated,
                        mg.nondispatchables[x].lifetime,
                        price(mg.nondispatchables[x]))

ReplacementPrice(c) == RMul(c.investment_price, c.replacement_price_ratio)
SalvagePrice(c) == RMul(c.investment_price, c.salvage_price_ratio)

\* C14 (as stated): the salvage cost of every component in sim_economics is
\* -(replacement price * remaining_life / lifetime) * quantity *
\* 1/(1 + discount_rate)^L, the replacement price being investment_price *
\* replacement_price_ratio, for every choice of replacement_price_ratio and
\* salvage_price_ratio.
C14_SalvageFromReplacementPrice ==
    Costed => SalvageFields(mg_costs[1], ReplacementPrice)

\* C14 (amended): the salvage cost of every component in sim_economics is
\* -(salvage price * remaining_life / lifetime) * quantity *
\* 1/(1 + discount_rate)^L, the salvage price being investment_price *
\* salvage_price_ratio; the replacement_price_ratio does not enter.
C14_SalvageFromSalvagePrice ==
    Costed => SalvageFields(mg_costs[1], SalvagePrice)

\* a costed microgrid whose generator, storage and a source each have
\* different replacement and salvage ratios and a nonzero salvage
C14_Witness ==
    /\ Costed
    /\ mg.generator.replacement_price_ratio # mg.generator.salvage_price_ratio
    /\ mg.storage.replacement_price_ratio # mg.storage.salvage_price_ratio
    /\ mg_costs[1].generator.salvage # Zero
    /\ mg_costs[1].storage.salvage # Zero
    /\ \E x \in DOMAIN mg.nondispatchables :
          /\ mg.nondispatchables[x].replacement_price_ratio
                # mg.nondispatchables[x].salvage_price_ratio
          /\ mg_costs[1].nondispatchables[x].salvage # Zero

TotalIsSum(c) ==
    c.total = RAdd(RAdd(RAdd(RAdd(c.investment, c.replacement), c.om), c.fuel),
                   c.salvage)

\* C16: every CostFactors the program produces (the default CostFactors(),
\* a from_prices result, a sum of CostFactors, the component and system
\* costs of sim_economics) satisfies total = investment + replacement + om
\* + fuel + salvage.
C16_TotalIsSumOfFields ==
    /\ TotalIsSum(CostFactors0)
    /\ Priced => TotalIsSum(f_res.value)
    /\ Added => TotalIsSum(f_sum.value)
    /\ Costed =>
          /\ TotalIsSum(mg_costs[1].generator)
          /\ TotalIsSum(mg_costs[1].storage)
          /\ \A x \in DOMAIN mg_costs[1].nondispatchables :
                TotalIsSum(mg_costs[1].nondispatchables[x])
          /\ TotalIsSum(mg_costs[1].system)

\* the sum of two priced components whose five cost fields are all nonzero
C16_Witness ==
    /\ Added
    /\ f_other.other # CostFactors0
    /\ \A fld \in {"investment", "replacement", "om", "fuel", "salvage"} :
          f_res.value[fld] # Zero /\ f_sum.value[fld] # f_res.value[fld]

\* the orders in which the names of a mapping can be enumerated
Orders(names) ==
    {s \in [1..Cardinality(names) -> names] :
        \A i, j \in 1..Cardinality(names) : s[i] = s[j] => i = j}

CostFields == {"total", "investment", "replacement", "om", "fuel", "salvage"}

\* C17: the MicrogridCosts returned by sim_economics has system = generator
\* + storage + the sum of the sources' CostFactors, field by field and
\* whatever the order of the sources; npc = system.total; lcoe = npc * crf /
\* served_energy with crf = 1 / sum over i = 1..L of 1/(1 + discount_rate)^i;
\* and its nondispatchables map has exactly the names of the microgrid's
\* sources.
C17_SystemCosts ==
    Costed =>
        LET c == mg_costs[1]
            names == DOMAIN mg.nondispatchables
            rate == mg.project.discount_rate
            crf == RDiv(One, RSum([i \in 1..mg.project.lifetime |->
                                      RDiv(One, RPow(RAdd(One, rate), i))]))
        IN  /\ DOMAIN c.nondispatchables = names
            /\ \A fld \in CostFields : \A order \in Orders(names) :
                  c.system[fld] =
                      RAdd(RAdd(c.generator[fld], c.storage[fld]),
                           RSum([i \in 1..Cardinality(names) |->
                                    c.nondispatchables[order[i]][fld]]))
            /\ c.npc = c.system.total
            /\ op_st.served_energy # Zero =>
                  c.lcoe = RDiv(RMul(c.npc, crf), op_st.served_energy)

\* a costed microgrid with two sources of different costs under a nonzero
\* discount rate
C17_Witness ==
    /\ Costed
    /\ mg.project.discount_rate # Zero
    /\ DOMAIN mg.nondispatchables = {"pv", "pv2"}
    /\ mg_costs[1].nondispatchables["pv"] # mg_costs[1].nondispatchables["pv2"]
    /\ mg_costs[1].nondispatchables["pv"].salvage # Zero
    /\ RGt(op_st.served_energy, Zero)
    /\ IsFinite(mg_costs[1].lcoe) /\ RGt(mg_costs[1].lcoe, Zero)

\* the microgrid m with every price input multiplied by c; the replacement
\* and salvage prices of sim_economics are investment_price times a ratio
ScalePrices(m, c) ==
    [m EXCEPT
        !.generator.investment_price = RMul(c, @),
        !.generator.om_price_hours = RMul(c, @),
        !.generator.fuel_price = RMul(c, @),
        !.storage.investment_price = RMul(c, @),
        !.storage.om_price = RMul(c, @),
        !.nondispatchables =
            [x \in DOMAIN @ |->
                [@[x] EXCEPT !.investment_price = RMul(c, @),
                             !.om_price = RMul(c, @)]]]

\* the CostFactors b is the CostFactors a with every field multiplied by c
ScaledCosts(a, b, c) == \A fld \in CostFields : b[fld] = RMul(c, a[fld])

ScaleFactors == {Half, Two, Three}

\* C18: with the ratings and the operation statistics unchanged, multiplying
\* every price input by the same factor c multiplies by c the npc, the lcoe
\* and every field of every CostFactors returned by sim_economics.
C18_PriceScaling ==
    Costed =>
        \A c \in ScaleFactors :
            LET r == sim_economics(ScalePrices(mg, c), op_st)
                old == mg_costs[1]
            IN  /\ ~r.raised
                /\ r.value.npc = RMul(c, old.npc)
                /\ r.value.lcoe = RMul(c, old.lcoe)
                /\ ScaledCosts(old.system, r.value.system, c)
                /\ ScaledCosts(old.generator, r.value.generator, c)
                /\ ScaledCosts(old.storage, r.value.storage, c)
                /\ DOMAIN r.value.nondispatchables = DOMAIN old.nondispatchables
                /\ \A x \in DOMAIN old.nondispatchables :
                      ScaledCosts(old.nondispatchables[x],
                                  r.value.nondispatchables[x], c)

\* a costed microgrid with a source, whose generator burnt fuel and was
\* replaced, under a nonzero discount rate
C18_Witness ==
    /\ Costed
    /\ mg.project.discount_rate # Zero
    /\ DOMAIN mg.nondispatchables # {}
    /\ mg_costs[1].generator.fuel # Zero
    /\ mg_costs[1].generator.replacement # Zero
    /\ mg_costs[1].storage.salvage # Zero
    /\ mg_costs[1].npc # Zero

\* C19: CostFactors addition adds each of the six fields, is commutative
\* (a + b = b + a) and associative ((a + b) + c = a + (b + c)), has the
\* default CostFactors() as identity, and raises NotImplementedError when the
\* right operand is not a CostFactors.
C19_AdditionAlgebra ==
    /\ Priced =>
          /\ CostFactors_add(f_res.value, CostFactors0) = Value(f_res.value)
          /\ CostFactors_add(CostFactors0, f_res.value) = Value(f_res.value)
    /\ (Priced /\ f_other.called /\ IsCostFactors(f_other.other)) =>
          LET a == f_res.value
              b == f_other.other
          IN  /\ ~f_sum.raised
              /\ \A fld \in CostFields : f_sum.value[fld] = RAdd(a[fld], b[fld])
              /\ f_sum = CostFactors_add(b, a)
              /\ \A c \in {x \in AddOperands : IsCostFactors(x)} :
                    CostFactors_add(f_sum.value, c)
                        = CostFactors_add(a, CostFactors_add(b, c).value)
    /\ (Priced /\ f_other.called /\ ~IsCostFactors(f_other.other)) =>
          f_sum.raised /\ f_sum.err = "NotImplementedError"

\* the sum of two different priced components, neither of them CostFactors()
C19_Witness ==
    /\ Added
    /\ f_res.value # CostFactors0
    /\ f_other.other # CostFactors0
    /\ f_other.other # f_res.value
    /\ f_sum.value # f_res.value
    /\ f_sum.value.total # Zero

\* C20: the storage lifetime used by the economic evaluator is
\* min(lifetime_calendar, lifetime_cycles / storage_cycles) when
\* storage_cycles > 0 and lifetime_calendar when storage_cycles = 0; when
\* the rated energy is zero (storage_cycles = +inf) it is lifetime_calendar.
C20_StorageLifetime ==
    OpReturned =>
        LET sto == mg.storage
            cycles == op_st.storage_cycles
            lifetime == BatteryLifetime(sto, cycles)
        IN  /\ ~lifetime.raised
            /\ lifetime.value =
                  IF sto.energy_rated = Zero THEN sto.lifetime_calendar
                  ELSE IF RGt(cycles, Zero)
                       THEN RMin(sto.lifetime_calendar,
                                 RDiv(sto.lifetime_cycles, cycles))
                       ELSE sto.lifetime_calendar

RECURSIVE EstoAt(_, _), DecisionAt(_, _)

\* the dispatch decision of instant i = 1..K of the run of sim_operation on m
\* (lines 202-210)
DecisionAt(m, i) ==
    dispatch(Pnl_request(m, i), Psto_cmax(m, EstoAt(m, i)),
             Psto_dmax(m, EstoAt(m, i)), m.generator.power_rated)

\* the storage energy at the beginning of instant i = 1..K+1 (lines 186, 219)
EstoAt(m, i) ==
    IF i = 1 THEN InitialEnergy(m)
    ELSE StorageUpdate(m, EstoAt(m, i - 1), DecisionAt(m, i - 1).Psto)

\* the decisions of the first n instants
Decisions(m, n) == [i \in 1..n |-> DecisionAt(m, i)]

\* the loop variables are those of the k instants simulated so far
RunFollowsDecisions ==
    (pc \in {"loop", "done", "costed", "econ_raised"}) =>
        /\ Esto = EstoAt(mg, k + 1)
        /\ k > 0 =>
              [Pgen |-> last.Pgen, Psto |-> last.Psto, Pspill |-> last.Pspill,
               Pshed |-> last.Pshed] = DecisionAt(mg, k)

\* C21: in every run of sim_operation gen_hours is the timestep times the
\* number of instants with Pgen > 0, gen_energy is the sum of Pgen * dt, and
\* gen_fuel is the sum over the instants with Pgen > 0 of (fuel_intercept *
\* power_rated + fuel_slope * Pgen) * dt; with a storage of rated energy 0,
\* no renewable production and a constant load L, 0 < L <= power_rated, over
\* K instants: gen_hours = K * dt, gen_energy = L * K * dt, gen_fuel =
\* (fuel_intercept * power_rated + fuel_slope * L) * K * dt, shed_energy = 0.
C21_GeneratorStats ==
    OpStarted =>
        LET dt == mg.project.timestep
            gen == mg.generator
            D == Decisions(mg, k)
            on == {i \in 1..k : RGt(D[i].Pgen, Zero)}
            K == K_of(mg)
            L == mg.load[1]
        IN  /\ RunFollowsDecisions
            /\ op_st.gen_hours = RMul(<<Cardinality(on), 1>>, dt)
            /\ op_st.gen_energy = RMul(RSum([i \in 1..k |-> D[i].Pgen]), dt)
            /\ op_st.gen_fuel =
                  RSum([i \in 1..k |->
                          IF i \in on
                          THEN RMul(RAdd(RMul(gen.fuel_intercept, gen.power_rated),
                                         RMul(gen.fuel_slope, D[i].Pgen)), dt)
                          ELSE Zero])
            /\ (/\ OpReturned
                /\ mg.storage.energy_rated = Zero
                /\ \A i \in 1..K : renew_potential(mg, i) = Zero /\ mg.load[i] = L
                /\ RLt(Zero, L) /\ RLe(L, gen.power_rated)) =>
                  /\ op_st.gen_hours = RMul(<<K, 1>>, dt)
                  /\ op_st.gen_energy = RMul(RMul(L, <<K, 1>>), dt)
                  /\ op_st.gen_fuel =
                        RMul(RMul(RAdd(RMul(gen.fuel_intercept, gen.power_rated),
                                       RMul(gen.fuel_slope, L)), <<K, 1>>), dt)
                  /\ op_st.shed_energy = Zero

\* a returned run of at least two half-hour instants under a flat load that
\* the generator alone serves, the storage being disabled
C21_Witness ==
    /\ OpReturned
    /\ K_of(mg) >= 2
    /\ mg.project.timestep = Half
    /\ mg.storage.energy_rated = Zero
    /\ \A i \in 1..K_of(mg) :
          renew_potential(mg, i) = Zero /\ mg.load[i] = mg.load[1]
    /\ RLt(Zero, mg.load[1]) /\ RLe(mg.load[1], mg.generator.power_rated)
    /\ mg.generator.fuel_intercept # Zero
    /\ RGt(op_st.gen_fuel, Zero)

\* the instant of the last dispatch call: the loop index is not advanced
\* when the instant raised
LastInstant == IF pc = "op_raised" THEN k + 1 ELSE k

\* C22: with a storage of rated energy 0, at every instant of sim_operation
\* Psto = 0 and the storage energy stays 0, Pspill = max(renew_potential -
\* load, 0), Pgen = min(max(load - renew_potential, 0), power_rated) and
\* Pshed = max(load - renew_potential - power_rated, 0); spilled_energy is
\* the sum of those spills times the timestep.
C22_DisabledStorage ==
    (OpStarted /\ mg.storage.energy_rated = Zero) =>
        LET dt == mg.project.timestep
            spill(i) == RMax(RSub(renew_potential(mg, i), mg.load[i]), Zero)
        IN  /\ Esto = Zero
            /\ last.called =>
                  LET i == LastInstant
                      deficit == RSub(mg.load[i], renew_potential(mg, i))
                  IN  /\ last.Psto = Zero
                      /\ last.Pspill = spill(i)
                      /\ last.Pgen = RMin(RMax(deficit, Zero), mg.generator.power_rated)
                      /\ last.Pshed =
                            RMax(RSub(deficit, mg.generator.power_rated), Zero)
            /\ op_st.spilled_energy = RMul(RSum([i \in 1..k |-> spill(i)]), dt)

\* a returned run with a disabled storage that spilled at one instant and
\* shed load beyond the running generator at another
C22_Witness ==
    /\ OpReturned
    /\ mg.storage.energy_rated = Zero
    /\ mg.project.timestep = Half
    /\ RGt(op_st.spilled_energy, Zero)
    /\ RGt(op_st.shed_energy, Zero)
    /\ RGt(op_st.gen_energy, Zero)

RECURSIVE StatsAfter(_, _)

\* the statistics counters and the running shedding duration after the
\* first n instants of a run on m that starts from OperationStats() and 0.0
\* (lines 188-190, 223-250)
StatsAfter(m, n) ==
    IF n = 0 THEN [st |-> OperationStats0, shed_duration |-> Zero]
    ELSE LET p == StatsAfter(m, n - 1)
         IN  Accumulate(m, p.st, DecisionAt(m, n), p.shed_duration)

\* the OperationStats that a run on m returns, recorder or not
StatsOf(m) ==
    FinalStats(m, StatsAfter(m, K_of(m)).st, EstoAt(m, K_of(m) + 1),
               InitialEnergy(m))

\* C23: sim_operation is a deterministic function of the microgrid: a run
\* returns the OperationStats obtained from SoC_ini * energy_rated and zeroed
\* counters, whatever ran before, and a run with a TrajRecorder returns
\* exactly the OperationStats of the run without one.
C23_DeterministicStats ==
    /\ OpReturned => op_st = StatsOf(mg)
    /\ recorder.on => pc # "op_raised"

\* C24: for every run of sim_operation with load >= 0 and productions >= 0
\* at every instant, any timestep > 0 and a nonzero renewable potential,
\* spilled_rate is spilled_energy / renew_potential_energy and lies in
\* [0, 1]: 0 <= spilled_energy <= renew_potential_energy and renew_energy
\* >= 0.
C24_SpilledRateInUnitInterval ==
    (OpReturned /\ op_st.renew_potential_energy # Zero) =>
        /\ RMul(op_st.spilled_rate, op_st.renew_potential_energy)
              = op_st.spilled_energy
        /\ RLe(Zero, op_st.spilled_rate) /\ RLe(op_st.spilled_rate, One)
        /\ RLe(Zero, op_st.spilled_energy)
        /\ RLe(op_st.spilled_energy, op_st.renew_potential_energy)
        /\ RGe(op_st.renew_energy, Zero)

\* a negative rated capacity, or a load series and a production series of
\* different lengths
ConfigError(m) ==
    \/ RLt(m.generator.power_rated, Zero)
    \/ RLt(m.storage.energy_rated, Zero)
    \/ \E x \in DOMAIN m.nondispatchables :
          \/ RLt(m.nondispatchables[x].power_rated, Zero)
          \/ Len(m.nondispatchables[x].irradiance) # Len(m.load)

\* C25: a configuration error (a negative rated capacity of the generator,
\* the storage or a source, or a load series and a production series of
\* different lengths) makes sim_operation fail before the first iteration of
\* the time loop: no such run calls dispatch or returns statistics.
C25_ConfigErrorsFailFast ==
    ConfigError(mg) =>
        /\ pc \in {"entry", "op_raised"}
        /\ ~last.called

\* C26: for every call of dispatch, whatever its arguments, at most one of
\* Pspill and Pshed is non-zero; Pshed > 0 implies Pnl_req >= 0, and Pspill
\* > 0 implies Pnl_req < 0 and Pgen = 0.
C26_SpillOrShed ==
    d_args.called =>
        /\ d_res.Pspill = Zero \/ d_res.Pshed = Zero
        /\ RGt(d_res.Pshed, Zero) => RGe(d_args.Pnl_req, Zero)
        /\ RGt(d_res.Pspill, Zero) =>
              RLt(d_args.Pnl_req, Zero) /\ d_res.Pgen = Zero

\* a call outside the precondition of dispatch (a positive charge limit)
\* that spills
C26_Witness ==
    /\ d_args.called
    /\ RGt(d_args.Psto_cmax, Zero)
    /\ RLt(d_args.Pgen_max, Zero)
    /\ RGt(d_res.Pspill, Zero)

\* the largest element of a finite nonempty set of naturals
MaxOf(S) == CHOOSE n \in S : \A x \in S : x <= n

\* the length of the longest run of consecutive instants among 1..n at
\* which the load is shed, and of the run that ends at instant n
LongestShedding(D, n) ==
    MaxOf({l \in 0..n :
              \/ l = 0
              \/ \E a \in 1..n :
                    /\ a + l - 1 <= n
                    /\ \A i \in a..(a + l - 1) : RGt(D[i].Pshed, Zero)})
CurrentShedding(D, n) ==
    MaxOf({l \in 0..n : \A i \in (n - l + 1)..n : RGt(D[i].Pshed, Zero)})

\* C27: in every run of sim_operation shed_energy is the sum of Pshed * dt,
\* shed_max the largest Pshed, shed_hours the timestep times the number of
\* instants with Pshed > 0 and shed_duration_max the timestep times the
\* length of the longest run of consecutive instants with Pshed > 0, the
\* running duration being reset to zero at every instant with Pshed = 0;
\* hence shed_duration_max <= shed_hours <= K * dt.
C27_SheddingStats ==
    OpStarted =>
        LET dt == mg.project.timestep
            D == Decisions(mg, k)
            shed == {i \in 1..k : RGt(D[i].Pshed, Zero)}
        IN  /\ op_st.shed_energy = RMul(RSum([i \in 1..k |-> D[i].Pshed]), dt)
            /\ \A i \in 1..k : RLe(D[i].Pshed, op_st.shed_max)
            /\ op_st.shed_max = Zero \/ \E i \in 1..k : D[i].Pshed = op_st.shed_max
            /\ op_st.shed_hours = RMul(<<Cardinality(shed), 1>>, dt)
            /\ op_st.shed_duration_max = RMul(<<LongestShedding(D, k), 1>>, dt)
            /\ shed_duration = RMul(<<CurrentShedding(D, k), 1>>, dt)
            /\ RLe(op_st.shed_duration_max, op_st.shed_hours)
            /\ RLe(op_st.shed_hours, RMul(<<K_of(mg), 1>>, dt))

\* a returned run of three instants of two hours that sheds at the first
\* and the last instant only
C27_Witness ==
    /\ OpReturned
    /\ K_of(mg) = 3
    /\ mg.project.timestep = Two
    /\ RGt(DecisionAt(mg, 1).Pshed, Zero)
    /\ DecisionAt(mg, 2).Pshed = Zero
    /\ RGt(DecisionAt(mg, 3).Pshed, Zero)
    /\ op_st.shed_hours = <<4, 1>>
    /\ op_st.shed_duration_max = Two

\* C28: at every instant of sim_operation the storage power limits given to
\* dispatch are Psto_dmax = min((Esto - Esto_min)/((1 + loss_factor) * dt),
\* discharge_rate_max * energy_rated) and Psto_cmax = max(-(Esto_max - Esto)
\* /((1 - loss_factor) * dt), -charge_rate_max * energy_rated), and they
\* satisfy Psto_cmax <= 0 <= Psto_dmax for every storage with SoC_min and
\* SoC_ini in [0, 1] and loss_factor in [0, 1).
C28_StoragePowerLimits ==
    (OpStarted /\ last.called) =>
        LET sto == mg.storage
            dt == mg.project.timestep
            E == EstoAt(mg, LastInstant)
        IN  /\ last.Psto_dmax =
                  RMin(RDiv(RSub(E, RMul(sto.SoC_min, sto.energy_rated)),
                            RMul(RAdd(One, sto.loss_factor), dt)),
                       RMul(sto.discharge_rate_max, sto.energy_rated))
            /\ last.Psto_cmax =
                  RMax(RNeg(RDiv(RSub(sto.energy_rated, E),
                                 RMul(RSub(One, sto.loss_factor), dt))),
                       RNeg(RMul(sto.charge_rate_max, sto.energy_rated)))
            /\ RLe(last.Psto_cmax, Zero)
            /\ RLe(Zero, last.Psto_dmax)

\* C29: the statistics returned by sim_operation close the energy balance
\* for any timestep: served_energy = gen_energy + renew_energy
\* + storage_dis_energy - storage_char_energy, with renew_energy =
\* renew_potential_energy - spilled_energy and renew_potential_energy the
\* renewable potential summed over the instants times the timestep.
C29_EnergyBalance ==
    OpReturned =>
        /\ op_st.renew_potential_energy =
               RMul(SumRenew(mg), mg.project.timestep)
        /\ op_st.renew_energy =
               RSub(op_st.renew_potential_energy, op_st.spilled_energy)
        /\ op_st.served_energy =
               RAdd(RAdd(op_st.gen_energy, op_st.renew_energy),
                    RSub(op_st.storage_dis_energy, op_st.storage_char_energy))

\* C30: sim_operation completes without error for a microgrid without
\* non-dispatchable source, with and without a TrajRecorder: the renewable
\* potential recorded in Prep is 0 at every instant, the net load request
\* given to dispatch is the load, and the run returns
\* renew_potential_energy = 0 with spilled_rate = +inf.
C30_NoSourceRuns ==
    NoSource(mg) =>
        /\ pc # "op_raised"
        /\ (OpStarted /\ last.called) => last.Pnl_req = mg.load[LastInstant]
        /\ (OpStarted /\ recorder.on) =>
               \A i \in 1..Len(recorder.arrays.Prep) :
                   recorder.arrays.Prep[i] = Zero
        /\ OpReturned => /\ op_st.renew_potential_energy = Zero
                         /\ op_st.spilled_rate = PosInf

====
